---- MODULE Spec2Model ----
(***************************************************************************)
(* A model of bqio/dht: the bencode codec (bencode.py), the KRPC session   *)
(* and bootstrap probe (orm.py) and the server dispatch loop (server.py).  *)
(*                                                                         *)
(* Bytes are sequences of integers 0..255.  A Python str is represented by *)
(* its UTF-8 encoding and tagged "str"; a Python bytes object is tagged    *)
(* "bytes".  A dict is the sequence of its (key, value) pairs in insertion *)
(* order.                                                                  *)
(***************************************************************************)
EXTENDS Integers, Sequences, FiniteSets, TLC

(***************************************************************************)
(* Values (bencode.SupportedTypes)                                         *)
(***************************************************************************)
VInt(n) == [k |-> "int", v |-> n]
VStr(b) == [k |-> "str", v |-> b]
VBytes(b) == [k |-> "bytes", v |-> b]
VList(s) == [k |-> "list", v |-> s]
VDict(p) == [k |-> "dict", v |-> p]

\* Marker bytes of the wire format.
ByteI == 105
ByteL == 108
ByteD == 100
ByteE == 101
ByteColon == 58
ByteMinus == 45

\* Text literals of the program, as UTF-8 bytes.
S_t == <<116>>
S_y == <<121>>
S_q == <<113>>
S_a == <<97>>
S_r == <<114>>
S_e == <<101>>
S_id == <<105, 100>>
S_ping == <<112, 105, 110, 103>>
S_find_node == <<102, 105, 110, 100, 95, 110, 111, 100, 101>>
S_get_peers == <<103, 101, 116, 95, 112, 101, 101, 114, 115>>
S_announce_peer == <<97, 110, 110, 111, 117, 110, 99, 101, 95, 112, 101, 101, 114>>
S_nodes == <<110, 111, 100, 101, 115>>
S_target == <<116, 97, 114, 103, 101, 116>>
S_wrong == <<119, 114, 111, 110, 103>>
S_MethodUnknown == <<77, 101, 116, 104, 111, 100, 32, 85, 110, 107, 110, 111, 119, 110>>

(***************************************************************************)
(* Python built-ins used by the codec                                      *)
(***************************************************************************)
Min(a, b) == IF a < b THEN a ELSE b

\* bytes.isdigit() of one byte
IsDigit(b) == b >= 48 /\ b <= 57

\* str(n).encode() for n >= 0
RECURSIVE DecDigits(_)
DecDigits(n) ==
    IF n < 10 THEN <<48 + n>> ELSE DecDigits(n \div 10) \o <<48 + (n % 10)>>

\* f"{n}".encode() for any integer
PyStrInt(n) == IF n < 0 THEN <<ByteMinus>> \o DecDigits(-n) ELSE DecDigits(n)

IsSpace(b) == b \in {9, 10, 11, 12, 13, 32}

RECURSIVE LStrip(_)
LStrip(s) == IF s # <<>> /\ IsSpace(s[1]) THEN LStrip(Tail(s)) ELSE s

RECURSIVE RStrip(_)
RStrip(s) ==
    IF s # <<>> /\ IsSpace(s[Len(s)]) THEN RStrip(SubSeq(s, 1, Len(s) - 1)) ELSE s

\* the digits of an int() literal: digits, single underscores between them
ValidIntBody(s) ==
    /\ s # <<>>
    /\ IsDigit(s[1])
    /\ IsDigit(s[Len(s)])
    /\ \A i \in 1..Len(s) :
          \/ IsDigit(s[i])
          \/ (s[i] = 95 /\ i < Len(s) /\ s[i + 1] # 95)

RECURSIVE IntBodyValue(_, _)
IntBodyValue(s, acc) ==
    IF s = <<>> THEN acc
    ELSE IF s[1] = 95 THEN IntBodyValue(Tail(s), acc)
    ELSE IntBodyValue(Tail(s), 10 * acc + (s[1] - 48))

\* the digits of an int() literal after its sign
PyIntBody(negative, body) ==
    IF ValidIntBody(body)
    THEN [ok |-> TRUE,
          n |-> IF negative THEN 0 - IntBodyValue(body, 0) ELSE IntBodyValue(body, 0)]
    ELSE [ok |-> FALSE, n |-> 0]

\* an int() literal without its surrounding whitespace
PyIntStripped(s) ==
    IF s # <<>> /\ s[1] \in {43, ByteMinus}
    THEN PyIntBody(s[1] = ByteMinus, Tail(s))
    ELSE PyIntBody(FALSE, s)

\* int(b): [ok, n]; ok = FALSE stands for ValueError
PyInt(b) == PyIntStripped(RStrip(LStrip(b)))

IsCont(b) == b >= 128 /\ b <= 191

\* whether bytes.decode() (UTF-8, strict) succeeds on s from index i (1-based)
RECURSIVE ValidUtf8From(_, _)
ValidUtf8From(s, i) ==
    IF i > Len(s) THEN TRUE
    ELSE LET b == s[i] IN
      IF b < 128 THEN ValidUtf8From(s, i + 1)
      ELSE IF b >= 194 /\ b <= 223
        THEN i + 1 <= Len(s) /\ IsCont(s[i + 1]) /\ ValidUtf8From(s, i + 2)
      ELSE IF b >= 224 /\ b <= 239
        THEN /\ i + 2 <= Len(s)
             /\ IsCont(s[i + 1])
             /\ (b = 224 => s[i + 1] >= 160)
             /\ (b = 237 => s[i + 1] <= 159)
             /\ IsCont(s[i + 2])
             /\ ValidUtf8From(s, i + 3)
      ELSE IF b >= 240 /\ b <= 244
        THEN /\ i + 3 <= Len(s)
             /\ IsCont(s[i + 1])
             /\ (b = 240 => s[i + 1] >= 144)
             /\ (b = 244 => s[i + 1] <= 143)
             /\ IsCont(s[i + 2])
             /\ IsCont(s[i + 3])
             /\ ValidUtf8From(s, i + 4)
      ELSE FALSE

ValidUtf8(s) == ValidUtf8From(s, 1)

\* bytes < bytes (and str < str: UTF-8 keeps code point order)
RECURSIVE BytesLess(_, _)
BytesLess(a, b) ==
    IF b = <<>> THEN FALSE
    ELSE IF a = <<>> THEN TRUE
    ELSE IF a[1] # b[1] THEN a[1] < b[1]
    ELSE BytesLess(Tail(a), Tail(b))

\* key1 < key2 for two dictionary keys of the same type
KeyLess(k1, k2) == IF k1.k = "int" THEN k1.v < k2.v ELSE BytesLess(k1.v, k2.v)

\* key1 == key2 (a str never equals a bytes object)
KeyEq(k1, k2) == k1.k = k2.k /\ k1.v = k2.v

RECURSIVE InsertSorted(_, _)
InsertSorted(p, s) ==
    IF s = <<>> THEN <<p>>
    ELSE IF KeyLess(p[1], s[1][1]) THEN <<p>> \o s
    ELSE <<s[1]>> \o InsertSorted(p, Tail(s))

\* the items in insertion order, unsorted
SortedItems_AsInserted(items) == items

\* sorted(value.items()) when the keys are mutually comparable
RECURSIVE SortedItems(_)
SortedItems(items) ==
    IF items = <<>> THEN <<>> ELSE InsertSorted(items[1], SortedItems(Tail(items)))

(***************************************************************************)
(* bencode.encode                                                          *)
(***************************************************************************)
encode_int(value) == <<ByteI>> \o PyStrInt(value) \o <<ByteE>>

encode_str(value) == DecDigits(Len(value)) \o <<ByteColon>> \o value

encode_bytes(value) == DecDigits(Len(value)) \o <<ByteColon>> \o value

\* whether encode(val) returns (it raises TypeError from sorted() when a
\* dictionary holds keys of two types)
RECURSIVE Encodable(_)
Encodable(val) ==
    CASE val.k = "list" -> \A i \in 1..Len(val.v) : Encodable(val.v[i])
      [] val.k = "dict" ->
            /\ \A i, j \in 1..Len(val.v) : val.v[i][1].k = val.v[j][1].k
            /\ \A i \in 1..Len(val.v) : Encodable(val.v[i][2])
      [] OTHER -> TRUE

RECURSIVE encode(_)
RECURSIVE EncodeJoin(_)
RECURSIVE EncodeItems(_)

\* b"".join([encode(v) for v in value])
EncodeJoin(s) == IF s = <<>> THEN <<>> ELSE encode(s[1]) \o EncodeJoin(Tail(s))

\* the loop body of encode_dict over the sorted items
EncodeItems(items) ==
    IF items = <<>> THEN <<>>
    ELSE encode(items[1][1]) \o encode(items[1][2]) \o EncodeItems(Tail(items))

encode_list(value) == <<ByteL>> \o EncodeJoin(value) \o <<ByteE>>

encode_dict(value) == <<ByteD>> \o EncodeItems(SortedItems(value)) \o <<ByteE>>

encode(val) ==
    CASE val.k = "int" -> encode_int(val.v)
      [] val.k = "str" -> encode_str(val.v)
      [] val.k = "list" -> encode_list(val.v)
      [] val.k = "dict" -> encode_dict(val.v)
      [] val.k = "bytes" -> encode_bytes(val.v)

(***************************************************************************)
(* bencode.decode: a stream is (data, pos), pos the 0-based cursor.  A     *)
(* result is [exc, val, pos]: exc = "" when the call returns val.          *)
(***************************************************************************)
Ok(val, pos) == [exc |-> "", val |-> val, pos |-> pos]
Raise(e, pos) == [exc |-> e, val |-> VInt(0), pos |-> pos]

\* stream.read(n): the bytes read (fewer than n at the end of the stream)
StreamRead(data, pos, n) ==
    IF n < 0 THEN SubSeq(data, pos + 1, Len(data))
    ELSE SubSeq(data, pos + 1, Min(pos + n, Len(data)))

\* the read(1) loop up to a terminator byte: [eof, acc, pos]
RECURSIVE ReadUntil(_, _, _, _)
ReadUntil(data, pos, term, acc) ==
    IF pos >= Len(data) THEN [eof |-> TRUE, acc |-> acc, pos |-> pos]
    ELSE IF data[pos + 1] = term THEN [eof |-> FALSE, acc |-> acc, pos |-> pos + 1]
    ELSE ReadUntil(data, pos + 1, term, Append(acc, data[pos + 1]))

\* buf = stream.read(length)
ReadBuf(data, pos, buf) == Ok(VBytes(buf), pos + Len(buf))

\* length = int(length_str)
ReadLength(data, pos, len) ==
    IF ~len.ok THEN Raise("ValueError", pos)
    ELSE ReadBuf(data, pos, StreamRead(data, pos, len.n))

\* after the loop that reads length_str up to ":"
ReadLengthPrefix(data, sc) ==
    IF sc.eof THEN Raise("ValueError", sc.pos)
    ELSE ReadLength(data, sc.pos, PyInt(sc.acc))

decode_bytes_from_stream(data, pos) ==
    ReadLengthPrefix(data, ReadUntil(data, pos, ByteColon, <<>>))

\* return buf.decode()
BufDecode(r) ==
    IF r.exc # "" THEN r
    ELSE IF ~ValidUtf8(r.val.v) THEN Raise("UnicodeDecodeError", r.pos)
    ELSE Ok(VStr(r.val.v), r.pos)

decode_str_from_stream(data, pos) ==
    BufDecode(ReadLengthPrefix(data, ReadUntil(data, pos, ByteColon, <<>>)))

\* return int(num_str)
ReadNumber(sc, num) ==
    IF ~num.ok THEN Raise("ValueError", sc.pos) ELSE Ok(VInt(num.n), sc.pos)

\* after the loop that reads num_str up to "e"
ReadNumberPrefix(sc) ==
    IF sc.eof THEN Raise("ValueError", sc.pos) ELSE ReadNumber(sc, PyInt(sc.acc))

decode_int_from_stream(data, pos, skip_signature) ==
    ReadNumberPrefix(ReadUntil(data,
                               IF skip_signature THEN Min(pos + 1, Len(data)) ELSE pos,
                               ByteE, <<>>))

\* data[key] = value
DictSet(pairs, key, value) ==
    IF \E i \in 1..Len(pairs) : KeyEq(pairs[i][1], key)
    THEN [i \in 1..Len(pairs) |->
            IF KeyEq(pairs[i][1], key) THEN <<pairs[i][1], value>> ELSE pairs[i]]
    ELSE Append(pairs, <<key, value>>)

RECURSIVE decode_from_stream(_, _)
RECURSIVE ListLoop(_, _, _)
RECURSIVE DictLoop(_, _, _)

\* items.append(decode_from_stream(stream))
ListItem(data, items, r) ==
    IF r.exc # "" THEN r ELSE ListLoop(data, r.pos, Append(items, r.val))

\* the while loop of decode_list_from_stream
ListLoop(data, pos, items) ==
    IF pos < Len(data) /\ data[pos + 1] = ByteE THEN Ok(VList(items), pos + 1)
    ELSE ListItem(data, items, decode_from_stream(data, pos))

\* value = decode_from_stream(stream); data[key] = value (TypeError when the
\* key is a list or a dict, which are unhashable)
DictValue(data, pairs, key, value) ==
    IF value.exc # "" THEN value
    ELSE IF key.val.k \in {"list", "dict"} THEN Raise("TypeError", value.pos)
    ELSE DictLoop(data, value.pos, DictSet(pairs, key.val, value.val))

\* key = decode_from_stream(stream)
DictKey(data, pairs, key) ==
    IF key.exc # "" THEN key
    ELSE DictValue(data, pairs, key, decode_from_stream(data, key.pos))

\* the while loop of decode_dict_from_stream
DictLoop(data, pos, pairs) ==
    IF pos < Len(data) /\ data[pos + 1] = ByteE THEN Ok(VDict(pairs), pos + 1)
    ELSE DictKey(data, pairs, decode_from_stream(data, pos))

decode_list_from_stream(data, pos, skip_signature) ==
    ListLoop(data, IF skip_signature THEN Min(pos + 1, Len(data)) ELSE pos, <<>>)

decode_dict_from_stream(data, pos, skip_signature) ==
    DictLoop(data, IF skip_signature THEN Min(pos + 1, Len(data)) ELSE pos, <<>>)

\* the fallback without the seek back to pos
StrOrBytes_NoSeek(data, pos, s) ==
    IF s.exc = "UnicodeDecodeError" THEN decode_bytes_from_stream(data, s.pos) ELSE s

\* try: decode_str_from_stream except UnicodeDecodeError: seek(pos);
\* decode_bytes_from_stream
StrOrBytes(data, pos, s) ==
    IF s.exc = "UnicodeDecodeError" THEN decode_bytes_from_stream(data, pos) ELSE s

decode_from_stream(data, pos) ==
    IF pos >= Len(data) THEN Raise("ValueError", pos)
    ELSE IF data[pos + 1] = ByteI THEN decode_int_from_stream(data, pos + 1, FALSE)
    ELSE IF data[pos + 1] = ByteL THEN decode_list_from_stream(data, pos + 1, FALSE)
    ELSE IF data[pos + 1] = ByteD THEN decode_dict_from_stream(data, pos + 1, FALSE)
    ELSE IF IsDigit(data[pos + 1])
      THEN StrOrBytes(data, pos, decode_str_from_stream(data, pos))
    ELSE Raise("ValueError", pos + 1)

decode_dict(value) == decode_dict_from_stream(value, 0, TRUE)

decode(value) == decode_from_stream(value, 0)

(***************************************************************************)
(* Bounds and input sets                                                   *)
(***************************************************************************)
\* calls one caller makes on one Session
MaxCalls == 2
\* datagrams other peers send to the server
MaxInject == 2

\* values util.generate_transaction_id() may return (4 random bytes): one
\* that is valid UTF-8 and one that is not
TxnIds == {<<97, 97, 97, 97>>, <<255, 0, 1, 2>>}

\* len(hashlib.sha1(...).digest())
IdLen == 20

\* values util.generate_node_id() may return: one valid UTF-8, one not
NodeIds == {[i \in 1..IdLen |-> 83], [i \in 1..IdLen |-> 233]}

BOOTSTRAP_NODES ==
    <<"router.bittorrent.com:6881", "dht.transmissionbt.com:6881", "127.0.0.1:6881">>

\* local_addr of the server's socket
ServerAddr == "127.0.0.1:6881"
\* the local address of the Session's socket, and that of another peer
ClientAddr == "client"
OtherAddr == "other"

(***************************************************************************)
(* State                                                                   *)
(***************************************************************************)
VARIABLES
    net,          \* datagrams in flight: [src, dst, data]
    NODE_ID,      \* server.NODE_ID
    srv_pc,       \* udp_server: "recv" (awaiting recvfrom), "handle", "stopped"
    srv_cur,      \* the (data, addr) recvfrom returned
    srv_log,      \* history: per received datagram, what was sent in reply
    injected,     \* datagrams other peers have sent to the server
    node_id,      \* Node.node_id
    socks,        \* Session.sock of every Session created: "open", "closed"
    remote,       \* Session.addr
    inbox,        \* datagrams queued on the Session's socket
    call,         \* the Session call in progress or last finished
    history,      \* history: the finished calls
    sent_log,     \* history: the Session's sendto calls [call, dst, data]
    boot_pc,      \* Node.bootstrap: "off", "loop", "ping", "await", "done", "raised"
    boot_i,       \* index of addr in BOOTSTRAP_NODES
    active_nodes, \* the list bootstrap builds
    boot_exc,     \* the exception bootstrap raised
    answered,     \* history: per address, the datagram kind that arrived in time
    c_pc,         \* a caller of bencode: "off", "value", "encoded", "input", "decoded"
    c_value,      \* the value the caller passes to encode
    c_data,       \* the bytes of the stream the caller passes to decode
    c_len,        \* history: len(encode(c_value)), the stream may hold more
    c_out         \* what decode_from_stream did: [exc, val, pos]

vars == <<net, NODE_ID, srv_pc, srv_cur, srv_log, injected, node_id, socks, remote,
          inbox, call, history, sent_log, boot_pc, boot_i, active_nodes, boot_exc,
          answered, c_pc, c_value, c_data, c_len, c_out>>

srv_vars == <<NODE_ID, srv_pc, srv_cur, srv_log, injected>>
sess_vars == <<node_id, socks, remote, inbox, call, history, sent_log>>
boot_vars == <<boot_pc, boot_i, active_nodes, boot_exc, answered>>
codec_vars == <<c_pc, c_value, c_data, c_len, c_out>>

(***************************************************************************)
(* Python objects of the protocol layer                                    *)
(***************************************************************************)
\* an attribute that is not set
NoAttr == [k |-> "none", v |-> 0]

\* a == b for two values
ValEq(a, b) == a.k = b.k /\ a.v = b.v

\* val[key] for a str key: [exc, val]; indexing anything but a dict with a
\* str raises TypeError
Subscript(val, key) ==
    IF val.k # "dict" THEN [exc |-> "TypeError", val |-> NoAttr]
    ELSE IF \E i \in 1..Len(val.v) : KeyEq(val.v[i][1], VStr(key))
      THEN [exc |-> "",
            val |-> val.v[CHOOSE i \in 1..Len(val.v) : KeyEq(val.v[i][1], VStr(key))][2]]
    ELSE [exc |-> "KeyError", val |-> NoAttr]

\* val[key1][key2]
Subscript2(val, key1, key2) ==
    IF Subscript(val, key1).exc # "" THEN Subscript(val, key1)
    ELSE Subscript(Subscript(val, key1).val, key2)

\* Query.__init__: __dict__ in assignment order
Query(id, method, t) ==
    VDict(<< <<VStr(S_t), VBytes(t)>>,
             <<VStr(S_y), VStr(S_q)>>,
             <<VStr(S_q), VStr(method)>>,
             <<VStr(S_a), VDict(<< <<VStr(S_id), VBytes(id)>> >>)>> >>)

PingQuery(id, t) == Query(id, S_ping, t)

FindNodeQuery(id, target_id, t) ==
    VDict(<< <<VStr(S_t), VBytes(t)>>,
             <<VStr(S_y), VStr(S_q)>>,
             <<VStr(S_q), VStr(S_find_node)>>,
             <<VStr(S_a), VDict(<< <<VStr(S_id), VBytes(id)>>,
                                   <<VStr(S_target), VBytes(target_id)>> >>)>> >>)

\* Query.serialized
serialized(query) == encode_dict(query.v)

NoResponse == [cls |-> "", id |-> NoAttr, t |-> NoAttr, nodes |-> NoAttr]

\* self.id = decoded["r"]["id"]; self.t = decoded["t"]
ResponseInit(id, t) ==
    IF id.exc # "" THEN [exc |-> id.exc, obj |-> NoResponse]
    ELSE IF t.exc # "" THEN [exc |-> t.exc, obj |-> NoResponse]
    ELSE [exc |-> "",
          obj |-> [cls |-> "Response", id |-> id.val, t |-> t.val, nodes |-> NoAttr]]

\* Response.__init__: [exc, obj]
Response(decoded) ==
    ResponseInit(Subscript2(decoded, S_r, S_id), Subscript(decoded, S_t))

\* super().__init__(decoded); self.nodes = decoded["r"]["nodes"]
FindNodeResponseInit(base, nodes) ==
    IF base.exc # "" THEN base
    ELSE IF nodes.exc # "" THEN [exc |-> nodes.exc, obj |-> NoResponse]
    ELSE [exc |-> "",
          obj |-> [base.obj EXCEPT !.cls = "FindNodeResponse", !.nodes = nodes.val]]

\* FindNodeResponse.__init__: [exc, obj]
FindNodeResponse(decoded) ==
    FindNodeResponseInit(Response(decoded), Subscript2(decoded, S_r, S_nodes))

(***************************************************************************)
(* server.py                                                               *)
(***************************************************************************)
\* y == "q" and q == method, for y = packet["y"] and q = packet["q"]: [exc, b]
\* (q is looked up only when y == "q")
QueryTest(y, q, method) ==
    IF y.exc # "" THEN [exc |-> y.exc, b |-> FALSE]
    ELSE IF ~ValEq(y.val, VStr(S_q)) THEN [exc |-> "", b |-> FALSE]
    ELSE IF q.exc # "" THEN [exc |-> q.exc, b |-> FALSE]
    ELSE [exc |-> "", b |-> ValEq(q.val, VStr(method))]

is_ping_packet(packet) ==
    QueryTest(Subscript(packet, S_y), Subscript(packet, S_q), S_ping)

is_find_node_packet(packet) ==
    QueryTest(Subscript(packet, S_y), Subscript(packet, S_q), S_find_node)

is_get_peers_packet(packet) ==
    QueryTest(Subscript(packet, S_y), Subscript(packet, S_q), S_get_peers)

is_announce_peer_packet(packet) ==
    QueryTest(Subscript(packet, S_y), Subscript(packet, S_q), S_announce_peer)

\* sock.sendto(bencode.encode_dict(message), addr): [exc, sent]
SendReply(message, addr) ==
    IF ~Encodable(message) THEN [exc |-> "TypeError", sent |-> <<>>]
    ELSE [exc |-> "", sent |-> << [data |-> encode_dict(message.v), addr |-> addr] >>]

\* a handler's message, built around t = packet["t"], and its sendto
ReplyWith(t, kind, key, body, addr) ==
    IF t.exc # "" THEN [exc |-> t.exc, sent |-> <<>>]
    ELSE SendReply(VDict(<< <<VStr(S_t), t.val>>,
                            <<VStr(S_y), VStr(kind)>>,
                            <<VStr(key), body>> >>),
                   addr)

\* handle_ping answering with an all-zero identity instead of NODE_ID
handle_ping_ZeroId(packet, addr) ==
    ReplyWith(Subscript(packet, S_t), S_r, S_r,
              VDict(<< <<VStr(S_id), VBytes([i \in 1..IdLen |-> 0])>> >>), addr)

handle_ping(packet, addr) ==
    ReplyWith(Subscript(packet, S_t), S_r, S_r,
              VDict(<< <<VStr(S_id), VBytes(NODE_ID)>> >>), addr)

handle_find_node(packet, addr) ==
    ReplyWith(Subscript(packet, S_t), S_r, S_r,
              VDict(<< <<VStr(S_id), VBytes(NODE_ID)>>,
                       <<VStr(S_nodes), VList(<<>>)>> >>), addr)

\* pass
handle_get_peers(packet, addr) == [exc |-> "", sent |-> <<>>]

\* pass
handle_announce_peer(packet, addr) == [exc |-> "", sent |-> <<>>]

\* handle_error with the two error arguments in the wrong order
handle_error_Swapped(packet, addr, error_code, error_message) ==
    ReplyWith(Subscript(packet, S_t), S_e, S_e,
              VList(<<VStr(error_message), VInt(error_code)>>), addr)

handle_error(packet, addr, error_code, error_message) ==
    ReplyWith(Subscript(packet, S_t), S_e, S_e,
              VList(<<VInt(error_code), VStr(error_message)>>), addr)

\* if test: then ... else/elif ...; an exception raised by test propagates
IfPacket(test, then, else) ==
    IF test.exc # "" THEN [exc |-> test.exc, sent |-> <<>>]
    ELSE IF test.b THEN then
    ELSE else

\* the if/elif chain of handle_query
Dispatch(packet, addr) ==
    IfPacket(is_ping_packet(packet), handle_ping(packet, addr),
    IfPacket(is_find_node_packet(packet), handle_find_node(packet, addr),
    IfPacket(is_get_peers_packet(packet), handle_get_peers(packet, addr),
    IfPacket(is_announce_peer_packet(packet), handle_announce_peer(packet, addr),
             handle_error(packet, addr, 204, S_MethodUnknown)))))

\* packet = bencode.decode_dict(data), then the dispatch
HandlePacket(decoded, addr) ==
    IF decoded.exc # "" THEN [exc |-> decoded.exc, sent |-> <<>>]
    ELSE Dispatch(decoded.val, addr)

\* handle_query: [exc, sent]
handle_query(data, addr) == HandlePacket(decode_dict(data), addr)

\* a loop that receives the next datagram while one is still in handling
ServerRecv_Concurrent ==
    /\ srv_pc \in {"recv", "handle"}
    /\ \E m \in net :
          /\ m.dst = ServerAddr
          /\ net' = net \ {m}
          /\ srv_cur' = [data |-> m.data, addr |-> m.src]
          /\ srv_log' = Append(srv_log, [data |-> m.data, addr |-> m.src,
                                         sent |-> <<>>, done |-> FALSE, exc |-> ""])
    /\ srv_pc' = "handle"
    /\ UNCHANGED <<NODE_ID, injected>>
    /\ UNCHANGED sess_vars
    /\ UNCHANGED boot_vars
    /\ UNCHANGED codec_vars

\* udp_server: data, addr = await sock.recvfrom()
ServerRecv ==
    /\ srv_pc = "recv"
    /\ \E m \in net :
          /\ m.dst = ServerAddr
          /\ net' = net \ {m}
          /\ srv_cur' = [data |-> m.data, addr |-> m.src]
          /\ srv_log' = Append(srv_log, [data |-> m.data, addr |-> m.src,
                                         sent |-> <<>>, done |-> FALSE, exc |-> ""])
    /\ srv_pc' = "handle"
    /\ UNCHANGED <<NODE_ID, injected>>
    /\ UNCHANGED sess_vars
    /\ UNCHANGED boot_vars
    /\ UNCHANGED codec_vars

\* the effect of one handle_query call: its datagrams are on the network; an
\* exception leaves udp_server's loop
Handled(res) ==
    /\ srv_pc' = IF res.exc # "" THEN "stopped" ELSE "recv"
    /\ net' = net \cup {[src |-> ServerAddr, dst |-> res.sent[i].addr,
                         data |-> res.sent[i].data] : i \in 1..Len(res.sent)}
    /\ srv_log' = [srv_log EXCEPT ![Len(srv_log)] =
                     [@ EXCEPT !.sent = res.sent, !.done = TRUE, !.exc = res.exc]]

\* udp_server: await handle_query(sock, data, addr)
ServerHandle ==
    /\ srv_pc = "handle"
    /\ Handled(handle_query(srv_cur.data, srv_cur.addr))
    /\ UNCHANGED <<NODE_ID, srv_cur, injected>>
    /\ UNCHANGED sess_vars
    /\ UNCHANGED boot_vars
    /\ UNCHANGED codec_vars

(***************************************************************************)
(* orm.py: Session                                                         *)
(***************************************************************************)
\* target_id values a caller passes to find_node (client.py sends b"aa")
TargetIds == {<<97, 97>>}

IdleCall ==
    [pc |-> "idle", method |-> <<>>, t |-> <<>>, exc |-> "", resp |-> NoResponse,
     accepted |-> <<>>]

\* the transport of the Session in use (the last one created)
sock == IF socks = <<>> THEN "none" ELSE socks[Len(socks)]

\* Session.create: asyncudp.create_socket(remote_addr=addr) returned a socket
create(ss) == Append(ss, "open")

\* a close that leaves the transport open
close_Leak(ss) == ss

\* Session.close: if self.sock: self.sock.close()
close(ss) == [ss EXCEPT ![Len(ss)] = "closed"]

\* __aexit__ closing only when the scope ends without an exception
aexit_OnSuccessOnly(ss, exc) == IF exc = "" THEN close(ss) ELSE ss

\* Session.__aexit__: await self.close(), whatever ended the scope
aexit(ss, exc) == close(ss)

\* ping() / find_node() up to the await of _send_query: the Query is built with
\* a fresh transaction ID and written by one self.sock.sendto, which returns
\* (ok) or raises OSError
SendQuery(method, t, data, ok) ==
    LET started == [IdleCall EXCEPT !.pc = "waiting", !.method = method, !.t = t]
        failed == [started EXCEPT !.pc = "raised", !.exc = "OSError"]
    IN  /\ sock = "open"
        /\ sent_log' = Append(sent_log, [call |-> Len(history) + 1, dst |-> remote,
                                         data |-> data])
        /\ IF ok
           THEN /\ net' = net \cup {[src |-> ClientAddr, dst |-> remote, data |-> data]}
                /\ call' = started
                /\ history' = history
           ELSE /\ net' = net
                /\ call' = failed
                /\ history' = Append(history, failed)

StartCall(method, t, target_id, ok) ==
    SendQuery(method, t,
              serialized(IF method = S_ping THEN PingQuery(node_id, t)
                         ELSE FindNodeQuery(node_id, target_id, t)),
              ok)

\* what ping() / find_node() do with the datagram recvfrom returned:
\* bencode.decode_dict(data), then Response(decoded) / FindNodeResponse(decoded)
Wrapped(c, data, wrapped) ==
    IF wrapped.exc # ""
    THEN [c EXCEPT !.pc = "raised", !.exc = wrapped.exc, !.accepted = data]
    ELSE [c EXCEPT !.pc = "returned", !.resp = wrapped.obj, !.accepted = data]

Decoded(c, data, decoded) ==
    IF decoded.exc # ""
    THEN [c EXCEPT !.pc = "raised", !.exc = decoded.exc, !.accepted = data]
    ELSE Wrapped(c, data, IF c.method = S_ping THEN Response(decoded.val)
                          ELSE FindNodeResponse(decoded.val))

FinishCall(c, data) == Decoded(c, data, decode_dict(data))

\* _send_query: await asyncio.wait_for(self.sock.recvfrom(), ...) returns the
\* next queued datagram
Recv ==
    /\ call.pc = "waiting"
    /\ sock = "open"
    /\ inbox # <<>>
    /\ call' = FinishCall(call, Head(inbox))
    /\ history' = Append(history, call')
    /\ inbox' = Tail(inbox)
    /\ UNCHANGED <<net, node_id, socks, remote, sent_log>>
    /\ UNCHANGED srv_vars
    /\ UNCHANGED boot_vars
    /\ UNCHANGED codec_vars

\* a timeout that writes the query again and keeps waiting
Timeout_Resend ==
    /\ call.pc = "waiting"
    /\ inbox = <<>>
    /\ Len(sent_log) <= MaxCalls
    /\ sent_log' = Append(sent_log, [sent_log[Len(sent_log)] EXCEPT !.call = Len(history) + 1])
    /\ net' = net \cup {[src |-> ClientAddr, dst |-> remote,
                          data |-> sent_log[Len(sent_log)].data]}
    /\ UNCHANGED <<node_id, socks, remote, inbox, call, history>>
    /\ UNCHANGED srv_vars
    /\ UNCHANGED boot_vars
    /\ UNCHANGED codec_vars

\* a wait for the datagram without a timer: nothing ends it
Timeout_NoTimer ==
    /\ call.pc = "waiting"
    /\ inbox = <<>>
    /\ UNCHANGED vars

\* the 5 second timeout fires: asyncio.TimeoutError, re-raised as TimeoutError
Timeout ==
    /\ call.pc = "waiting"
    /\ inbox = <<>>
    /\ call' = [call EXCEPT !.pc = "raised", !.exc = "TimeoutError"]
    /\ history' = Append(history, call')
    /\ UNCHANGED <<net, node_id, socks, remote, inbox, sent_log>>
    /\ UNCHANGED srv_vars
    /\ UNCHANGED boot_vars
    /\ UNCHANGED codec_vars

\* recvfrom raises OSError (a transport failure)
RecvError ==
    /\ call.pc = "waiting"
    /\ inbox = <<>>
    /\ call' = [call EXCEPT !.pc = "raised", !.exc = "OSError"]
    /\ history' = Append(history, call')
    /\ UNCHANGED <<net, node_id, socks, remote, inbox, sent_log>>
    /\ UNCHANGED srv_vars
    /\ UNCHANGED boot_vars
    /\ UNCHANGED codec_vars

(***************************************************************************)
(* A caller that uses one Session to the server as a scoped resource       *)
(***************************************************************************)
\* async with await node.connect(addr) as session
CallerConnect ==
    /\ boot_pc = "off"
    /\ socks = <<>>
    /\ socks' = create(socks)
    /\ remote' = ServerAddr
    /\ UNCHANGED <<net, node_id, inbox, call, history, sent_log>>
    /\ UNCHANGED srv_vars
    /\ UNCHANGED boot_vars
    /\ UNCHANGED codec_vars

\* await session.ping() or await session.find_node(target_id)
CallerCall(method, t, target_id, ok) ==
    /\ boot_pc = "off"
    /\ call.pc # "waiting"
    /\ Len(history) < MaxCalls
    /\ StartCall(method, t, target_id, ok)
    /\ UNCHANGED <<node_id, socks, remote, inbox>>
    /\ UNCHANGED srv_vars
    /\ UNCHANGED boot_vars
    /\ UNCHANGED codec_vars

\* the scope ends (normally or by an exception of the last call)
CallerExit ==
    /\ boot_pc = "off"
    /\ sock = "open"
    /\ call.pc # "waiting"
    /\ socks' = aexit(socks, call.exc)
    /\ UNCHANGED <<net, node_id, remote, inbox, call, history, sent_log>>
    /\ UNCHANGED srv_vars
    /\ UNCHANGED boot_vars
    /\ UNCHANGED codec_vars

(***************************************************************************)
(* The datagram network between the Session and the server                 *)
(***************************************************************************)
\* a datagram reaches the Session's socket and is queued (a datagram that is
\* lost, or late, is one that stays in net)
Deliver ==
    /\ sock = "open"
    /\ \E m \in net :
          /\ m.dst = ClientAddr
          /\ net' = net \ {m}
          /\ inbox' = Append(inbox, m.data)
    /\ UNCHANGED <<node_id, socks, remote, call, history, sent_log>>
    /\ UNCHANGED srv_vars
    /\ UNCHANGED boot_vars
    /\ UNCHANGED codec_vars

InitCommon ==
    /\ net = {}
    /\ NODE_ID \in NodeIds
    /\ srv_pc = "recv"
    /\ srv_cur = [data |-> <<>>, addr |-> ""]
    /\ srv_log = <<>>
    /\ injected = 0
    /\ node_id \in NodeIds \ {NODE_ID}
    /\ socks = <<>>
    /\ remote = ""
    /\ inbox = <<>>
    /\ call = IdleCall
    /\ history = <<>>
    /\ sent_log = <<>>
    /\ boot_i = 1
    /\ active_nodes = <<>>
    /\ boot_exc = ""
    /\ answered = [i \in 1..Len(BOOTSTRAP_NODES) |-> "none"]
    /\ c_len = 0
    /\ c_out = Ok(NoAttr, 0)

\* one Session against the reference server
Init ==
    /\ InitCommon
    /\ boot_pc = "off"
    /\ c_pc = "off"
    /\ c_value = NoAttr
    /\ c_data = <<>>

Next ==
    \/ CallerConnect
    \/ \E method \in {S_ping, S_find_node}, t \in TxnIds, target_id \in TargetIds,
          ok \in BOOLEAN : CallerCall(method, t, target_id, ok)
    \/ CallerExit
    \/ Recv
    \/ Timeout
    \/ RecvError
    \/ Deliver
    \/ ServerRecv
    \/ ServerHandle

Spec == Init /\ [][Next]_vars

\* Recv can take a step (every step of Recv appends to history)
RecvEnabled == call.pc = "waiting" /\ sock = "open" /\ inbox # <<>>

\* the same system under the event loop's scheduling: the 5 second timer of a
\* wait_for fires if no datagram is queued, and a wait_for whose datagram is
\* queued is resumed (weak fairness of Recv, with its enabling condition
\* written out as RecvEnabled)
InitFair == Init /\ NODE_ID = [i \in 1..IdLen |-> 233]

SpecFair ==
    /\ InitFair
    /\ [][Next]_vars
    /\ WF_vars(Timeout)
    /\ ([]<>(~RecvEnabled) \/ []<><<Recv>>_vars)

(***************************************************************************)
(* The server alone, with the datagrams other peers send it                *)
(***************************************************************************)
\* the node identity of the other peer
OtherNodeId == [i \in 1..IdLen |-> 79]

\* a message {"t": t, "y": y, key: body}
Message(t, y, key, body) ==
    VDict(<< <<VStr(S_t), VBytes(t)>>, <<VStr(S_y), VStr(y)>>, <<VStr(key), body>> >>)

Args == VDict(<< <<VStr(S_id), VBytes(OtherNodeId)>> >>)

\* well-formed queries, as client.py builds them (send_ping, send_wrong_packet,
\* send_find_node) and for the two methods the server leaves unimplemented
QueryDatagrams ==
    {serialized(Query(OtherNodeId, method, t)) :
        method \in {S_ping, S_get_peers, S_announce_peer, S_wrong}, t \in TxnIds}
    \cup {serialized(FindNodeQuery(OtherNodeId, target_id, t)) :
            target_id \in TargetIds, t \in TxnIds}

\* messages that are not queries: a response and an error
ReplyDatagrams ==
    {encode(Message(t, S_r, S_r, Args)) : t \in TxnIds}
    \cup {encode(Message(t, S_e, S_e, VList(<<VInt(201), VStr(S_wrong)>>))) : t \in TxnIds}

\* datagrams that do not decode, or decode to a dictionary that lacks t, y or q
BadDatagrams ==
    {<<>>,
     <<120>>,
     <<ByteL, ByteE>>,
     <<ByteD, ByteE>>,
     encode(VDict(<< <<VStr(S_y), VStr(S_q)>>, <<VStr(S_q), VStr(S_ping)>> >>)),
     encode(VDict(<< <<VStr(S_t), VBytes(<<97, 97, 97, 97>>)>>, <<VStr(S_y), VStr(S_q)>> >>)),
     encode(VDict(<< <<VStr(S_t), VBytes(<<97, 97, 97, 97>>)>>,
                     <<VStr(S_q), VStr(S_ping)>> >>)),
     SubSeq(serialized(PingQuery(OtherNodeId, <<97, 97, 97, 97>>)), 1, 20)}

\* a datagram that holds a top-level list, not a dictionary:
\* ["t", b"aaaa", "y", "q", "q", "ping"]
ListDatagrams ==
    {encode(VList(<<VStr(S_t), VBytes(<<97, 97, 97, 97>>), VStr(S_y), VStr(S_q),
                    VStr(S_q), VStr(S_ping)>>))}

InjectDatagrams == QueryDatagrams \cup ReplyDatagrams \cup BadDatagrams \cup ListDatagrams

\* another peer sends the server a datagram
Inject(data) ==
    /\ injected < MaxInject
    /\ injected' = injected + 1
    /\ net' = net \cup {[src |-> OtherAddr, dst |-> ServerAddr, data |-> data]}
    /\ UNCHANGED <<NODE_ID, srv_pc, srv_cur, srv_log>>
    /\ UNCHANGED sess_vars
    /\ UNCHANGED boot_vars
    /\ UNCHANGED codec_vars

NextServer ==
    \/ \E data \in InjectDatagrams : Inject(data)
    \/ ServerRecv
    \/ ServerHandle

SpecServer == Init /\ [][NextServer]_vars

(***************************************************************************)
(* orm.py: Node.bootstrap, and the peers at the bootstrap addresses        *)
(***************************************************************************)
\* except (TimeoutError, OSError): continue
Caught(exc) == exc \in {"TimeoutError", "OSError"}

\* for addr in BOOTSTRAP_NODES: ... await self.connect(addr): create_socket
\* returns a socket (ok) or raises OSError, which the except clause swallows
BootConnect(ok) ==
    /\ boot_pc = "loop"
    /\ boot_i <= Len(BOOTSTRAP_NODES)
    /\ IF ok
       THEN /\ socks' = create(socks)
            /\ remote' = BOOTSTRAP_NODES[boot_i]
            /\ inbox' = <<>>
            /\ call' = IdleCall
            /\ boot_pc' = "ping"
            /\ boot_i' = boot_i
       ELSE /\ boot_i' = boot_i + 1
            /\ UNCHANGED <<socks, remote, inbox, call, boot_pc>>
    /\ UNCHANGED <<net, node_id, history, sent_log, active_nodes, boot_exc, answered>>
    /\ UNCHANGED srv_vars
    /\ UNCHANGED codec_vars

\* await session.ping(), up to its await
BootPing(t, ok) ==
    /\ boot_pc = "ping"
    /\ StartCall(S_ping, t, <<>>, ok)
    /\ boot_pc' = "await"
    /\ UNCHANGED <<node_id, socks, remote, inbox>>
    /\ UNCHANGED <<boot_i, active_nodes, boot_exc, answered>>
    /\ UNCHANGED srv_vars
    /\ UNCHANGED codec_vars

\* the rest of the loop body once ping() has returned or raised:
\* active_nodes.append(addr) after a return, __aexit__ in both cases, then the
\* except clause
Resumed(c) ==
    /\ active_nodes' = IF c.pc = "returned"
                       THEN Append(active_nodes, BOOTSTRAP_NODES[boot_i])
                       ELSE active_nodes
    /\ socks' = aexit(socks, c.exc)
    /\ IF c.pc = "returned" \/ Caught(c.exc)
       THEN boot_i' = boot_i + 1 /\ boot_pc' = "loop" /\ boot_exc' = boot_exc
       ELSE boot_i' = boot_i /\ boot_pc' = "raised" /\ boot_exc' = c.exc

BootResume ==
    /\ boot_pc = "await"
    /\ call.pc \in {"returned", "raised"}
    /\ Resumed(call)
    /\ UNCHANGED <<net, node_id, remote, inbox, call, history, sent_log, answered>>
    /\ UNCHANGED srv_vars
    /\ UNCHANGED codec_vars

\* return active_nodes
BootReturn ==
    /\ boot_pc = "loop"
    /\ boot_i > Len(BOOTSTRAP_NODES)
    /\ boot_pc' = "done"
    /\ UNCHANGED <<boot_i, active_nodes, boot_exc, answered>>
    /\ UNCHANGED <<net>>
    /\ UNCHANGED sess_vars
    /\ UNCHANGED srv_vars
    /\ UNCHANGED codec_vars

\* what a peer may answer to a query datagram
PeerKinds == {"response", "mismatch", "error", "undecodable"}

\* a transaction ID other than t
OtherTxn(t) == CHOOSE u \in TxnIds : u # t

\* the reply of each kind to the query datagram data from addr: the reference
\* server's reply, its reply to another transaction, an Error message with the
\* query's t, and the reference reply cut short
PeerDatagram(kind, data, addr) ==
    CASE kind = "response" -> handle_query(data, addr).sent[1].data
      [] kind = "mismatch" ->
            encode(Message(OtherTxn(Subscript(decode_dict(data).val, S_t).val.v),
                           S_r, S_r, VDict(<< <<VStr(S_id), VBytes(NODE_ID)>> >>)))
      [] kind = "error" ->
            handle_error(decode_dict(data).val, addr, 201, S_wrong).sent[1].data
      [] kind = "undecodable" -> SubSeq(handle_query(data, addr).sent[1].data, 1, 20)

\* the peer at the Session's address answers the query; the answer is in time
\* when the call still waits and nothing else is queued
PeerReply(kind) ==
    /\ sock = "open"
    /\ \E m \in net :
          /\ m.dst = remote
          /\ net' = net \ {m}
          /\ inbox' = Append(inbox, PeerDatagram(kind, m.data, m.src))
    /\ answered' = IF call.pc = "waiting" /\ inbox = <<>>
                   THEN [answered EXCEPT ![boot_i] = kind]
                   ELSE answered
    /\ UNCHANGED <<node_id, socks, remote, call, history, sent_log>>
    /\ UNCHANGED <<boot_pc, boot_i, active_nodes, boot_exc>>
    /\ UNCHANGED srv_vars
    /\ UNCHANGED codec_vars

InitBoot ==
    /\ InitCommon
    /\ boot_pc = "loop"
    /\ c_pc = "off"
    /\ c_value = NoAttr
    /\ c_data = <<>>

NextBoot ==
    \/ \E ok \in BOOLEAN : BootConnect(ok)
    \/ \E t \in TxnIds, ok \in BOOLEAN : BootPing(t, ok)
    \/ \E kind \in PeerKinds : PeerReply(kind)
    \/ Recv
    \/ Timeout
    \/ RecvError
    \/ BootResume
    \/ BootReturn

SpecBoot == InitBoot /\ [][NextBoot]_vars

(***************************************************************************)
(* A caller of bencode: encode(value), then decode of a stream that holds  *)
(* the encoding (and maybe more bytes after it), or decode of given bytes  *)
(***************************************************************************)
\* longest list / dictionary the caller builds
MaxItems == 2

CodecAtoms ==
    {VInt(0), VInt(-7), VInt(120), VStr(<<>>), VStr(<<97, 195, 169>>),
     VBytes(<<>>), VBytes(<<255, 0>>)}

CodecLists == {VList(s) : s \in UNION {[1..n -> CodecAtoms] : n \in 0..MaxItems}}

\* keys of one type, as sorted() needs: text keys, or opaque byte keys
TextKeys == {VStr(<<98>>), VStr(<<97>>), VStr(<<97, 97>>)}
ByteKeys == {VBytes(<<255>>), VBytes(<<128, 1>>)}
DictVals == {VInt(5), VStr(<<120>>), VList(<<VBytes(<<254>>)>>)}

\* the item sequences, in every insertion order, of dictionaries over keys
ItemSeqs(keys) ==
    {p \in UNION {[1..n -> keys \X DictVals] : n \in 0..MaxItems} :
        \A i, j \in DOMAIN p : i # j => p[i][1] # p[j][1]}

CodecDicts == {VDict(p) : p \in ItemSeqs(TextKeys) \cup ItemSeqs(ByteKeys)}

\* values nested deeper
CodecNested ==
    {VList(<<VList(<<VInt(1), VList(<<>>)>>), VDict(<<>>)>>),
     VDict(<< <<VStr(<<97>>), VDict(<< <<VStr(<<98>>), VList(<<VStr(<<99>>)>>)>> >>)>>,
              <<VStr(<<>>), VInt(-1)>> >>),
     VList(<<VDict(<< <<VStr(<<122>>), VInt(2)>>, <<VStr(<<97>>), VStr(<<98>>)>> >>)>>)}

CodecValues == CodecAtoms \cup CodecLists \cup CodecDicts \cup CodecNested

\* bytes that follow the encoded value in the stream
Suffixes == {<<101>>, <<105, 49, 101>>, <<48>>, <<58, 255>>}

\* an integer without its terminating e: 'i10', 'i', 'i-3'
UnterminatedInts ==
    {<<105, 49, 48>>,
     <<105>>,
     <<105, 45, 51>>}

\* a byte string whose declared length exceeds the bytes that remain: '5:abc', '1:', 'l4:abe', b'2:\xff'
ShortStrings ==
    {<<53, 58, 97, 98, 99>>,
     <<49, 58>>,
     <<108, 52, 58, 97, 98, 101>>,
     <<50, 58, 255>>}

\* a list or dictionary without its terminating e: 'l', 'li1e', 'd', 'd1:ai1e', 'lle'
UnterminatedContainers ==
    {<<108>>,
     <<108, 105, 49, 101>>,
     <<100>>,
     <<100, 49, 58, 97, 105, 49, 101>>,
     <<108, 108, 101>>}

\* a leading byte that is none of i, l, d or a digit: 'x', 'e', ':', '-1e'
BadLeading ==
    {<<120>>,
     <<101>>,
     <<58>>,
     <<45, 49, 101>>}

CodecInputs == UnterminatedInts \cup ShortStrings \cup UnterminatedContainers \cup BadLeading

\* data = bencode.encode(value)
EncodeValue ==
    /\ c_pc = "value"
    /\ c_pc' = "encoded"
    /\ c_data' = encode(c_value)
    /\ c_len' = Len(c_data')
    /\ UNCHANGED <<net, c_value, c_out>>
    /\ UNCHANGED srv_vars
    /\ UNCHANGED sess_vars
    /\ UNCHANGED boot_vars

\* the stream holds more bytes after the encoded value
AppendSuffix(s) ==
    /\ c_pc = "encoded"
    /\ Len(c_data) = c_len
    /\ c_data' = c_data \o s
    /\ UNCHANGED <<net, c_pc, c_value, c_len, c_out>>
    /\ UNCHANGED srv_vars
    /\ UNCHANGED sess_vars
    /\ UNCHANGED boot_vars

\* bencode.decode(data): decode_from_stream(BytesIO(data)), cursor at 0
DecodeStream ==
    /\ c_pc \in {"encoded", "input"}
    /\ c_pc' = "decoded"
    /\ c_out' = decode_from_stream(c_data, 0)
    /\ UNCHANGED <<net, c_value, c_data, c_len>>
    /\ UNCHANGED srv_vars
    /\ UNCHANGED sess_vars
    /\ UNCHANGED boot_vars

InitCodec ==
    /\ InitCommon
    /\ boot_pc = "off"
    /\ \/ c_pc = "value" /\ c_value \in CodecValues /\ c_data = <<>>
       \/ c_pc = "input" /\ c_value = NoAttr /\ c_data \in CodecInputs

NextCodec ==
    \/ EncodeValue
    \/ \E s \in Suffixes : AppendSuffix(s)
    \/ DecodeStream

SpecCodec == InitCodec /\ [][NextCodec]_vars

(***************************************************************************)
(* Properties                                                              *)
(***************************************************************************)
\* the value under key of a decoded datagram d (a result of decode_dict):
\* [exc, val]
Field(d, key) ==
    IF d.exc # "" THEN [exc |-> d.exc, val |-> NoAttr] ELSE Subscript(d.val, key)

\* the value is a byte string (text or opaque) with these bytes
IsBytes(val, b) == val.k \in {"str", "bytes"} /\ val.v = b

\* the decoded datagram is a message that carries a byte-string transaction ID
HasTxn(d) == Field(d, S_t).exc = "" /\ Field(d, S_t).val.k \in {"str", "bytes"}

\* the two decoded datagrams carry the same transaction ID
SameTxn(d1, d2) ==
    /\ HasTxn(d1)
    /\ HasTxn(d2)
    /\ Field(d1, S_t).val.v = Field(d2, S_t).val.v

\* the decoded datagram is a query (y = q) with a method name and a
\* transaction ID
IsQuery(d) ==
    /\ HasTxn(d)
    /\ Field(d, S_y).exc = ""
    /\ IsBytes(Field(d, S_y).val, S_q)
    /\ Field(d, S_q).exc = ""

\* the decoded datagram is a query for this method
IsQueryFor(d, method) == IsQuery(d) /\ IsBytes(Field(d, S_q).val, method)

KnownMethods == {S_ping, S_find_node, S_get_peers, S_announce_peer}

\* the datagram did not decode, or lacks one of t, y, q
IsBadDatagram(d) ==
    \/ d.exc # ""
    \/ \E key \in {S_t, S_y, S_q} : Field(d, key).exc = "KeyError"

\* the entry got exactly one datagram in reply, sent to the query's sender
OneReplyToSender(e) == Len(e.sent) = 1 /\ e.sent[1].addr = e.addr

\* the accepted datagram, decoded, carries the transaction ID the call sent
CarriesSentTxn(h, d) == HasTxn(d) /\ Field(d, S_t).val.v = h.t

\* C1: a Session call returns a response only if the datagram it accepted
\* carries the transaction ID of the query the call sent.
C1_AcceptedReplyCarriesSentTxn ==
    \A i \in DOMAIN history :
        history[i].pc = "returned" =>
            CarriesSentTxn(history[i], decode_dict(history[i].accepted))

\* the addresses from which the answer to the ping (the response that carries
\* the ping's transaction ID) arrived within the timeout
AnsweredPing(addr) ==
    \E i \in DOMAIN BOOTSTRAP_NODES : BOOTSTRAP_NODES[i] = addr /\ answered[i] = "response"

\* C2: when bootstrap() returns, its list holds exactly the addresses that
\* answered the ping with a response in time, each once, in bootstrap order.
C2_BootstrapListsResponders ==
    boot_pc = "done" => active_nodes = SelectSeq(BOOTSTRAP_NODES, AnsweredPing)

\* C3: bootstrap() never raises, whatever the probed addresses do.
C3_BootstrapNeverRaises == boot_pc # "raised"

\* the reply r to the ping query q is a response with this node's identity
\* and the query's transaction ID
IsPingResponse(r, q) ==
    /\ IsBytes(Field(r, S_y).val, S_r)
    /\ IsBytes(Subscript(Field(r, S_r).val, S_id).val, NODE_ID)
    /\ SameTxn(r, q)

PingAnswered(e, q) ==
    IsQueryFor(q, S_ping) =>
        /\ OneReplyToSender(e)
        /\ IsPingResponse(decode_dict(e.sent[1].data), q)

\* C4: every ping query the server has handled got exactly one reply, sent
\* to the query's sender, with y = r, r.id = NODE_ID and the query's t.
C4_PingAnsweredOnce ==
    \A i \in DOMAIN srv_log :
        srv_log[i].done => PingAnswered(srv_log[i], decode_dict(srv_log[i].data))

\* a ping from the other peer was answered after an earlier datagram
C4_Witness ==
    /\ Len(srv_log) = 2
    /\ srv_log[2].done
    /\ IsQueryFor(decode_dict(srv_log[2].data), S_ping)
    /\ Len(srv_log[2].sent) = 1
    /\ srv_log[2].data # srv_log[1].data

\* the decoded datagram is a query whose method is none of the four known ones
IsUnknownQuery(d) ==
    IsQuery(d) /\ \A method \in KnownMethods : ~IsBytes(Field(d, S_q).val, method)

\* the reply r to the query q is the error 204 "Method Unknown" with the
\* query's transaction ID
IsMethodUnknownError(r, q) ==
    /\ IsBytes(Field(r, S_y).val, S_e)
    /\ Field(r, S_e).val = VList(<<VInt(204), VStr(S_MethodUnknown)>>)
    /\ SameTxn(r, q)

UnknownAnswered(e, q) ==
    IsUnknownQuery(q) =>
        /\ OneReplyToSender(e)
        /\ IsMethodUnknownError(decode_dict(e.sent[1].data), q)

\* C5: every query with an unknown method the server has handled got exactly
\* one reply, sent to its sender, with y = e, e = [204, "Method Unknown"] and
\* the query's t.
C5_UnknownMethodError ==
    \A i \in DOMAIN srv_log :
        srv_log[i].done => UnknownAnswered(srv_log[i], decode_dict(srv_log[i].data))

\* a query for the method "wrong" was answered after an earlier datagram
C5_Witness ==
    /\ Len(srv_log) = 2
    /\ srv_log[2].done
    /\ IsQueryFor(decode_dict(srv_log[2].data), S_wrong)
    /\ Len(srv_log[2].sent) = 1

\* C6: a datagram that does not decode, or lacks t, y or q, does not stop the
\* server loop.
C6_BadDatagramKeepsServing ==
    \A i \in DOMAIN srv_log :
        (srv_log[i].done /\ IsBadDatagram(decode_dict(srv_log[i].data)))
            => srv_pc # "stopped"

\* a datagram sent in reply to the entry carries the transaction ID of q
AnsweredWithTxn(e, q) ==
    IsQuery(q) => \E j \in DOMAIN e.sent : SameTxn(decode_dict(e.sent[j].data), q)

\* C7: every well-formed query the server has handled was answered by a
\* datagram that carries the query's transaction ID.
C7_EveryQueryAnswered ==
    \A i \in DOMAIN srv_log :
        srv_log[i].done => AnsweredWithTxn(srv_log[i], decode_dict(srv_log[i].data))

\* C8: a find_node call against the reference server that returns, returns a
\* FindNodeResponse with nodes = [], the server's identity and the
\* transaction ID of the find_node query it sent.
C8_FindNodeResult ==
    \A i \in DOMAIN history :
        (history[i].method = S_find_node /\ history[i].pc = "returned") =>
            /\ history[i].resp.cls = "FindNodeResponse"
            /\ history[i].resp.nodes = VList(<<>>)
            /\ IsBytes(history[i].resp.id, NODE_ID)
            /\ IsBytes(history[i].resp.t, history[i].t)

\* C9: outside the scope of a Session (before the next connect, after
\* bootstrap returned or raised) every transport created is closed.
C9_TransportClosedOutsideScope ==
    boot_pc \in {"loop", "done", "raised"} =>
        \A i \in DOMAIN socks : socks[i] = "closed"

\* three scopes were left: by a returned ping, by a transport failure and by a
\* failure while decoding or wrapping the reply
C9_Witness ==
    /\ boot_pc = "raised"
    /\ boot_exc \in {"ValueError", "KeyError"}
    /\ Len(socks) = 3
    /\ history[1].pc = "returned"
    /\ history[2].exc = "OSError"
    /\ \A i \in DOMAIN socks : socks[i] = "closed"

\* the calls started so far
CallsStarted == Len(history) + (IF call.pc = "waiting" THEN 1 ELSE 0)

\* C10: every call started has written exactly one datagram, to the
\* Session's address, and nothing else was written.
C10_OneDatagramPerCall ==
    /\ Len(sent_log) = CallsStarted
    /\ \A c \in 1..CallsStarted :
          Cardinality({j \in DOMAIN sent_log : sent_log[j].call = c}) = 1
    /\ \A j \in DOMAIN sent_log : sent_log[j].dst = remote

\* a call timed out and a later call failed while wrapping its reply
C10_Witness ==
    /\ Len(history) = 2
    /\ history[1].exc = "TimeoutError"
    /\ history[2].exc = "KeyError"
    /\ Len(sent_log) = 2

\* the outcome of a call that ended by the timeout: TimeoutError, no response,
\* no datagram accepted; a call that returned accepted a datagram
EndedAsWaited(h) ==
    /\ h.exc = "TimeoutError" => (h.pc = "raised" /\ h.resp = NoResponse /\ h.accepted = <<>>)
    /\ h.pc = "returned" => (h.exc = "" /\ h.accepted # <<>>)

\* C11: every call of ping() / find_node() that waits for its reply ends, and
\* a call ended by the timeout raised TimeoutError and returned no response.
C11_CallTerminates ==
    /\ [](\A i \in DOMAIN history : EndedAsWaited(history[i]))
    /\ (call.pc = "waiting" ~> call.pc # "waiting")

\* a call ended by the timeout and a later one by a datagram that arrived
C11_Witness ==
    /\ Len(history) = 2
    /\ history[1].exc = "TimeoutError"
    /\ history[2].pc = "returned"
    /\ call.pc = "returned"

\* Python's a == b on values: a str never equals a bytes object, lists are
\* equal item by item, dictionaries when they hold the same keys with equal
\* values whatever the insertion order
RECURSIVE PyEq(_, _)
PyEq(a, b) ==
    IF a.k # b.k THEN FALSE
    ELSE IF a.k = "list"
      THEN Len(a.v) = Len(b.v) /\ \A i \in DOMAIN a.v : PyEq(a.v[i], b.v[i])
    ELSE IF a.k = "dict"
      THEN /\ Len(a.v) = Len(b.v)
           /\ \A i \in DOMAIN a.v : \E j \in DOMAIN b.v :
                 KeyEq(a.v[i][1], b.v[j][1]) /\ PyEq(a.v[i][2], b.v[j][2])
    ELSE a.v = b.v

\* the caller decoded exactly the encoding of c_value
RoundTripDone == c_pc = "decoded" /\ c_value.k # "none" /\ Len(c_data) = c_len

\* C12: decode(encode(v)) returns a value equal to v; a byte string comes back
\* as a byte string.
C12_RoundTrip == RoundTripDone => (c_out.exc = "" /\ PyEq(c_out.val, c_value))

\* C13: decode raises a decode error on every input with an unterminated
\* integer, list or dictionary, a byte string shorter than its declared
\* length, or an unknown leading byte.
C13_MalformedRejected ==
    (c_pc = "decoded" /\ c_data \in CodecInputs) => c_out.exc = "ValueError"

\* the keys of the pairs in the order in which the encoded dictionary holds them
EmittedKeys(data) ==
    [i \in DOMAIN DictLoop(data, 1, <<>>).val.v |-> DictLoop(data, 1, <<>>).val.v[i][1]]

StrictlyAscending(keys) ==
    \A i \in 1..(Len(keys) - 1) : BytesLess(keys[i].v, keys[i + 1].v)

\* the same items in every insertion order
Reorderings(items) ==
    {p \in [DOMAIN items -> {items[i] : i \in DOMAIN items}] :
        \A i \in DOMAIN items : \E j \in DOMAIN p : p[j] = items[i]}

C16_CursorPastValue ==
    (c_pc = "decoded" /\ c_value.k # "none") =>
        /\ c_out.exc = ""
        /\ c_out.pos = c_len
        /\ c_out.val = decode_from_stream(SubSeq(c_data, 1, c_len), 0).val

\* a list that holds an opaque byte string (tried as text first) was decoded
\* from a stream that held more bytes after it
C16_Witness ==
    /\ c_pc = "decoded"
    /\ c_value.k = "list"
    /\ Len(c_value.v) = 2
    /\ c_value.v[1] = VBytes(<<255, 0>>)
    /\ Len(c_data) > c_len
    /\ c_out.pos = c_len

\* C15: the server handles one datagram at a time: a datagram is received
\* only when every earlier one has been handled, and what was sent in reply to
\* an earlier datagram never changes once a later one has been received.
C15_OneAtATime ==
    [][/\ \A i \in 1..(Len(srv_log) - 1) : srv_log[i].done /\ srv_log'[i] = srv_log[i]
       /\ Len(srv_log') > Len(srv_log) => \A i \in DOMAIN srv_log : srv_log[i].done]_vars

\* the second datagram is in handling, after the reply to the first was sent
C15_Witness ==
    /\ Len(srv_log) = 2
    /\ srv_log[1].done
    /\ Len(srv_log[1].sent) = 1
    /\ ~srv_log[2].done
    /\ srv_pc = "handle"

\* every query bootstrap has sent carries Node.node_id in a.id
CarriesNodeId(data) ==
    IsBytes(Subscript2(decode_dict(data).val, S_a, S_id).val, node_id)

\* C17: during bootstrap at most one Session is open, every earlier Session
\* is closed before the next is created, at most one query is outstanding and
\* every query sent carries the same node identity.
C17_OneSessionAtATime ==
    /\ Cardinality({i \in DOMAIN socks : socks[i] = "open"}) <= 1
    /\ \A i \in 1..(Len(socks) - 1) : socks[i] = "closed"
    /\ Len(sent_log) - Len(history) = (IF call.pc = "waiting" THEN 1 ELSE 0)
    /\ \A j \in DOMAIN sent_log : CarriesNodeId(sent_log[j].data)

\* the ping to the third address is outstanding on the third Session
C17_Witness ==
    /\ boot_pc = "await"
    /\ Len(socks) = 3
    /\ socks[3] = "open"
    /\ Len(sent_log) = 3
    /\ call.pc = "waiting"

\* the decoded datagram is a response or an error message
IsReplyMessage(d) ==
    /\ Field(d, S_y).exc = ""
    /\ \E y \in {S_r, S_e} : IsBytes(Field(d, S_y).val, y)

NothingSentFor(e, d) == IsReplyMessage(d) => e.sent = <<>>

\* C18: the server sends nothing in reply to a received message whose y is r
\* or e.
C18_RepliesOnlyToQueries ==
    \A i \in DOMAIN srv_log :
        srv_log[i].done => NothingSentFor(srv_log[i], decode_dict(srv_log[i].data))

\* the datagram's first byte is not the dictionary marker
NotDictionary(data) == data # <<>> /\ data[1] # ByteD

\* C19: the server's decode of a datagram whose first byte is not d fails, and
\* the datagram gets no reply.
C19_NonDictionaryRejected ==
    \A i \in DOMAIN srv_log :
        (srv_log[i].done /\ NotDictionary(srv_log[i].data)) =>
            (srv_log[i].exc = "ValueError" /\ srv_log[i].sent = <<>>)

====
